---- MODULE Spec2Model ----
(***************************************************************************)
(* A model of geosetter_lite/ai_service.py: AIService.compute_similarity   *)
(* with the feature extraction it drives (extract_features and the feature *)
(* cache) and the greedy grouping of _find_similar_groups; the loading of  *)
(* the two models; predict_location; and the location store of             *)
(* geosetter_lite/services/location_database.py.                           *)
(*                                                                         *)
(* Conventions.                                                            *)
(*  - An image path is a number 1..n.  The pretrained network is opaque:   *)
(*    what it yields is summarised by the world's `cos`, the cosine        *)
(*    similarity of the normalised feature vectors of two images, and by   *)
(*    `readable`, the images whose extraction succeeds.                    *)
(*  - Similarities and thresholds are fixed-point numbers in units of      *)
(*    1/Unit, so Unit stands for 1.0.                                      *)
(*  - A float mean is the exact rational, kept as a reduced fraction       *)
(*    [num, den].                                                          *)
(*  - Python sequences are 0-based; sequences here are 1-based.  The loop  *)
(*    variable i of compute_similarity keeps its 0-based value, the        *)
(*    indices of _find_similar_groups are shifted by one.                  *)
(*  - load_resnet_model is taken to succeed (the weights are obtainable).  *)
(***************************************************************************)
EXTENDS Integers, Sequences, FiniteSets, TLC

\* Bounds of the model.
NumImages == 3
GroupImages == 4
MaxLen == 3
SimMax == 2
MaxCalls == 2

\* 1.0 in fixed point: the upper end of the threshold range.
Unit == 100

VARIABLES
    \* the world: the files and what the network makes of them
    cos,                \* cos[a][b]: cosine similarity of the features of a and b
    readable,           \* images whose extraction succeeds
    \* AIService fields
    resnet_model,       \* TRUE once load_resnet_model has run
    feature_cache,      \* self._feature_cache: path -> features
    \* the frame of compute_similarity
    pc,                 \* "idle", "progress", "extract", "check", "sort", "done"
    image_paths,
    threshold,
    progress_callback,  \* TRUE when the caller passed a callback
    i,                  \* the loop index of enumerate(image_paths)
    features_list,
    valid_paths,
    similarity_matrix,
    groups,             \* what _find_similar_groups returned, in formation order
    result,             \* the returned list
    \* history
    calls,              \* the number of compute_similarity calls started
    log,                \* this call's progress and extraction events, in order
    \* the world of the joint model and of the location store
    clip_available,     \* CLIP_AVAILABLE: the transformers import succeeded
    clip_sim,           \* clip_sim[d]: cosine of the image and description d
    csv,                \* the seed file world_locations.csv
    db_exists,          \* the file at db_path exists
    db_rows,            \* the committed rows of table locations
    \* more AIService fields
    clip_model,         \* TRUE once load_clip_model has loaded the model
    location_database,  \* self._location_database, loaded lazily
    \* history of the operations outside compute_similarity
    loads,              \* weight loads of this process, per model
    instance_loads,     \* weight loads of the current AIService, per model
    last,               \* the last operation completed and what it did
    ops,                \* the number of operations started
    \* the main window
    window              \* self.images, the handler running, its progress dialog

vars == <<cos, readable, resnet_model, feature_cache, pc, image_paths, threshold,
          progress_callback, i, features_list, valid_paths, similarity_matrix,
          groups, result, calls, log, clip_available, clip_sim, csv, db_exists,
          db_rows, clip_model, location_database, loads, instance_loads, last, ops,
          window>>

\* What compute_similarity neither reads nor writes.
others == <<clip_available, clip_sim, csv, db_exists, db_rows, clip_model,
            location_database, last, ops, window>>

(***************************************************************************)
(* Values                                                                  *)
(***************************************************************************)
Range(s) == {s[k] : k \in DOMAIN s}

Images == DOMAIN cos

\* The similarity values the general worlds draw from: 0, ..., Unit.
Levels == {(k * Unit) \div SimMax : k \in 0..SimMax}

\* extract_features returning None.
None == [of |-> 0, epoch |-> 0]

EmptyCache == << >>

\* self._location_database = None
NotLoaded == [loaded |-> FALSE, rows |-> << >>]

\* No weights loaded yet.
NoLoads == [resnet |-> 0, clip |-> 0]

\* No operation completed yet.
NoOp == [op |-> "none"]

\* The main window with no image loaded and no handler running.
NoWindow ==
    [images |-> << >>, at |-> "idle", cancelled |-> FALSE, shown |-> "none",
     clicks |-> 0, todo |-> << >>, k |-> 0, late |-> 0, predictions |-> << >>,
     selected |-> << >>, emitted |-> << >>, writes |-> << >>, raised |-> FALSE]

\* No seed file.
NoSeed == [exists |-> FALSE, header |-> {}, rows |-> << >>]

\* A symmetric matrix with unit diagonal, from its upper triangle.
Pairs(n) == {p \in (1..n) \X (1..n) : p[1] < p[2]}

MatrixOf(n, u) ==
    [a \in 1..n |-> [b \in 1..n |->
        IF a = b THEN Unit ELSE IF a < b THEN u[<<a, b>>] ELSE u[<<b, a>>]]]

SymMatrices(n) == {MatrixOf(n, u) : u \in [Pairs(n) -> Levels]}

\* All sequences over S of length at most n.
SeqsUpTo(S, n) == UNION {[1..k -> S] : k \in 0..n}

Indices(n) == [k \in 1..n |-> k]

(***************************************************************************)
(* Fractions: the float values of avg_similarity                           *)
(***************************************************************************)
RECURSIVE Gcd(_, _)
Gcd(a, b) == IF b = 0 THEN a ELSE Gcd(b, a % b)

Abs(x) == IF x < 0 THEN -x ELSE x

Frac(n, d) ==
    LET g == Gcd(Abs(n), d) IN [num |-> n \div g, den |-> d \div g]

Zero == [num |-> 0, den |-> 1]

FracGeq(x, y) == x.num * y.den >= y.num * x.den

RECURSIVE SumSeq(_)
SumSeq(s) == IF s = << >> THEN 0 ELSE s[1] + SumSeq(Tail(s))

\* np.mean of a non-empty list, then float().
Mean(s) == Frac(SumSeq(s), Len(s))

(***************************************************************************)
(* extract_features                                                        *)
(***************************************************************************)
\* The outcome of the try block: the features of a readable image once the
\* model is loaded, None otherwise (the exception is caught and printed).
\* epoch records the call that computed the vector.
\* (ExtractFeaturesNoFail: the variant in which no extraction fails.)
ExtractFeaturesNoFail(cache, path) ==
    IF path \in DOMAIN cache
    THEN [features |-> cache[path], cache |-> cache]
    ELSE LET f == [of |-> path, epoch |-> calls]
         IN  [features |-> f, cache |-> cache @@ (path :> f)]

\* (ExtractFeaturesRememberFailure: the variant that caches None.)
ExtractFeaturesRememberFailure(cache, path) ==
    IF path \in DOMAIN cache
    THEN [features |-> cache[path], cache |-> cache]
    ELSE IF resnet_model /\ path \in readable
         THEN LET f == [of |-> path, epoch |-> calls]
              IN  [features |-> f, cache |-> cache @@ (path :> f)]
         ELSE [features |-> None, cache |-> cache @@ (path :> None)]

ExtractFeatures(cache, path) ==
    IF path \in DOMAIN cache
    THEN [features |-> cache[path], cache |-> cache]
    ELSE IF resnet_model /\ path \in readable
         THEN LET f == [of |-> path, epoch |-> calls]
              IN  [features |-> f, cache |-> cache @@ (path :> f)]
         ELSE [features |-> None, cache |-> cache]

\* One iteration of the extraction loop on the running lists: the features
\* and the path of an image are appended together, a failed image to neither.
\* (ExtractStepAbort: the variant in which a failure drops the images so far.)
ExtractStepAbort(acc, path) ==
    LET r == ExtractFeatures(acc.cache, path)
    IN  IF r.features # None
        THEN [cache |-> r.cache,
              features_list |-> Append(acc.features_list, r.features),
              valid_paths |-> Append(acc.valid_paths, path)]
        ELSE [cache |-> r.cache, features_list |-> << >>, valid_paths |-> << >>]

ExtractStep(acc, path) ==
    LET r == ExtractFeatures(acc.cache, path)
    IN  IF r.features # None
        THEN [cache |-> r.cache,
              features_list |-> Append(acc.features_list, r.features),
              valid_paths |-> Append(acc.valid_paths, path)]
        ELSE [acc EXCEPT !.cache = r.cache]

\* self._feature_cache.clear()  (KeepCache: the variant without it.)
KeepCache(cache) == cache

ClearCache(cache) == EmptyCache

\* progress_callback(i, len(image_paths))  (ProgressArgsNext: counting from 1.)
ProgressArgsNext(idx, paths) == [ev |-> "progress", current |-> idx + 1, total |-> Len(paths)]

ProgressArgs(idx, paths) == [ev |-> "progress", current |-> idx, total |-> Len(paths)]

\* Where the loop goes after progress_callback returned: to the extraction,
\* whatever the callback did or found (its return value is not looked at).
\* (AfterCallbackBreak: the variant leaving the loop once the caller's
\* dialog is cancelled.)
AfterCallbackBreak(cancelled) == IF cancelled THEN "check" ELSE "extract"

AfterCallback(cancelled) == "extract"

\* Where the loop body starts: the callback is called only when given.
LoopBody(cb) == IF cb THEN "progress" ELSE "extract"

LoopNext(idx, paths, cb) == IF idx < Len(paths) THEN LoopBody(cb) ELSE "check"

\* load_resnet_model: `if self.resnet_model is not None: return`, else the
\* weights are loaded.  The number of loads after the call, from the number
\* before.  (LoadsAfterUnguarded: the variant without the test.)
LoadsAfterUnguarded(model, n) == n + 1

LoadsAfter(model, n) == IF model THEN n ELSE n + 1

\* len(features_list) < 2
TooFew(fl) == Len(fl) < 2

(***************************************************************************)
(* The similarity matrix: stack, normalize, mm                             *)
(***************************************************************************)
SimilarityMatrix(fl) ==
    [a \in 1..Len(fl) |-> [b \in 1..Len(fl) |-> cos[fl[a].of][fl[b].of]]]

(***************************************************************************)
(* _find_similar_groups                                                    *)
(***************************************************************************)
\* `if i in visited: continue`  (AlwaysSeed: the variant without the test.)
AlwaysSeed(idx, visited) == TRUE

Unvisited(idx, visited) == idx \notin visited

\* `i != j and similarity_matrix[i, j] >= threshold`  (SimilarStrict: with >.)
SimilarStrict(a, b, m, t) == a # b /\ m[a][b] > t

Similar(a, b, m, t) == a # b /\ m[a][b] >= t

\* The inner loop over j: the indices similar to idx, in increasing order.
SimilarIndices(idx, m, t, n) ==
    SelectSeq(Indices(n), LAMBDA j : Similar(idx, j, m, t))

\* `if similar_indices:`  (AnyGroup: the variant without the test;
\* HasBigGroup: the variant asking for two similar images.)
AnyGroup(similar_indices) == TRUE

HasBigGroup(similar_indices) == Len(similar_indices) >= 2

HasGroup(similar_indices) == similar_indices # << >>

\* The double loop over group_indices keeping idx1 < idx2, in loop order.
\* (SeedSimilarities: the variant averaging the list `similarities` of the
\* seed's pairs only.)
SeedSimilarities(group_indices, m) ==
    [k \in 1..(Len(group_indices) - 1) |-> m[group_indices[1]][group_indices[k + 1]]]

GroupSimilarities(group_indices, m) ==
    LET L == Len(group_indices)
        cells == [k \in 1..(L * L) |-> <<((k - 1) \div L) + 1, ((k - 1) % L) + 1>>]
        kept == SelectSeq(cells, LAMBDA c : group_indices[c[1]] < group_indices[c[2]])
    IN  [k \in 1..Len(kept) |-> m[group_indices[kept[k][1]]][group_indices[kept[k][2]]]]

\* `np.mean(group_similarities) if group_similarities else 0.0`
AvgSimilarity(group_indices, m) ==
    LET gs == GroupSimilarities(group_indices, m)
    IN  IF gs # << >> THEN Mean(gs) ELSE Zero

\* `visited.update(group_indices)`  (MarkSeedOnly: the variant marking the
\* seed alone.)
MarkSeedOnly(visited, group_indices) == visited \cup {group_indices[1]}

MarkVisited(visited, group_indices) == visited \cup Range(group_indices)

\* One pass of the outer loop, from index idx on.
RECURSIVE FindLoop(_, _, _, _, _, _)
FindLoop(idx, visited, gs, paths, m, t) ==
    IF idx > Len(paths) THEN gs
    ELSE IF ~Unvisited(idx, visited) THEN FindLoop(idx + 1, visited, gs, paths, m, t)
    ELSE LET similar_indices == SimilarIndices(idx, m, t, Len(paths))
         IN  IF HasGroup(similar_indices)
             THEN LET group_indices == <<idx>> \o similar_indices
                      group_paths == [k \in 1..Len(group_indices) |-> paths[group_indices[k]]]
                      g == [paths |-> group_paths, avg |-> AvgSimilarity(group_indices, m)]
                  IN  FindLoop(idx + 1, MarkVisited(visited, group_indices),
                               Append(gs, g), paths, m, t)
             ELSE FindLoop(idx + 1, visited, gs, paths, m, t)

FindSimilarGroups(paths, m, t) == FindLoop(1, {}, << >>, paths, m, t)

(***************************************************************************)
(* groups.sort(key=lambda x: x[1], reverse=True): stable, descending       *)
(***************************************************************************)
\* g goes behind every element whose key is >= its own.
InsertDesc(sorted, g) ==
    LET before == SelectSeq(sorted, LAMBDA h : FracGeq(h.avg, g.avg))
        after == SelectSeq(sorted, LAMBDA h : ~FracGeq(h.avg, g.avg))
    IN  before \o <<g>> \o after

RECURSIVE SortedDesc(_)
SortedDesc(gs) ==
    IF gs = << >> THEN << >>
    ELSE InsertDesc(SortedDesc(SubSeq(gs, 1, Len(gs) - 1)), gs[Len(gs)])

\* (Unsorted: the variant without the sort.)
Unsorted(gs) == gs

SortGroups(gs) == SortedDesc(gs)

(***************************************************************************)
(* compute_similarity, step by step                                        *)
(***************************************************************************)
world == <<cos, readable>>

\* The call starts: load_resnet_model(), clear the cache, empty lists.
Call(paths, t, cb) ==
    /\ pc = "idle"
    /\ resnet_model' = TRUE
    /\ loads' = [loads EXCEPT !.resnet = LoadsAfter(resnet_model, @)]
    /\ instance_loads' = [instance_loads EXCEPT !.resnet = LoadsAfter(resnet_model, @)]
    /\ feature_cache' = ClearCache(feature_cache)
    /\ image_paths' = paths
    /\ threshold' = t
    /\ progress_callback' = cb
    /\ i' = 0
    /\ features_list' = << >>
    /\ valid_paths' = << >>
    /\ similarity_matrix' = << >>
    /\ groups' = << >>
    /\ result' = << >>
    /\ calls' = calls + 1
    /\ log' = << >>
    /\ pc' = LoopNext(0, paths, cb)
    /\ UNCHANGED <<world, others>>

\* progress_callback(i, len(image_paths)), before the extraction of image i.
Progress ==
    /\ pc = "progress"
    /\ log' = Append(log, ProgressArgs(i, image_paths))
    /\ pc' = AfterCallback(window.cancelled)
    /\ UNCHANGED <<world, others, resnet_model, loads, instance_loads, feature_cache, image_paths, threshold,
                   progress_callback, i, features_list, valid_paths,
                   similarity_matrix, groups, result, calls>>

\* extract_features(image_path) and the two appends; then the next iteration.
Extract ==
    /\ pc = "extract"
    /\ LET acc == ExtractStep([cache |-> feature_cache,
                                features_list |-> features_list,
                                valid_paths |-> valid_paths], image_paths[i + 1])
       IN  /\ feature_cache' = acc.cache
           /\ features_list' = acc.features_list
           /\ valid_paths' = acc.valid_paths
    /\ log' = Append(log, [ev |-> "extract", current |-> i, total |-> Len(image_paths)])
    /\ i' = i + 1
    /\ pc' = LoopNext(i + 1, image_paths, progress_callback)
    /\ UNCHANGED <<world, others, resnet_model, loads, instance_loads, image_paths, threshold, progress_callback,
                   similarity_matrix, groups, result, calls>>

\* `if len(features_list) < 2: return []`
ReturnEmpty ==
    /\ pc = "check"
    /\ TooFew(features_list)
    /\ result' = << >>
    /\ pc' = "done"
    /\ UNCHANGED <<world, others, resnet_model, loads, instance_loads, feature_cache, image_paths, threshold,
                   progress_callback, i, features_list, valid_paths,
                   similarity_matrix, groups, calls, log>>

\* The similarity matrix and the call of _find_similar_groups.
FindGroups ==
    /\ pc = "check"
    /\ ~TooFew(features_list)
    /\ similarity_matrix' = SimilarityMatrix(features_list)
    /\ groups' = FindSimilarGroups(valid_paths, SimilarityMatrix(features_list), threshold)
    /\ pc' = "sort"
    /\ UNCHANGED <<world, others, resnet_model, loads, instance_loads, feature_cache, image_paths, threshold,
                   progress_callback, i, features_list, valid_paths, result,
                   calls, log>>

\* The sort and the return.  `groups` keeps the formation order; the sorted
\* list is `result`.
SortAndReturn ==
    /\ pc = "sort"
    /\ result' = SortGroups(groups)
    /\ pc' = "done"
    /\ UNCHANGED <<world, others, resnet_model, loads, instance_loads, feature_cache, image_paths, threshold,
                   progress_callback, i, features_list, valid_paths,
                   similarity_matrix, groups, calls, log>>

\* The caller has taken the returned list: the frame is gone, the service's
\* fields stay.
Release ==
    /\ pc = "done"
    /\ pc' = "idle"
    /\ image_paths' = << >>
    /\ threshold' = 0
    /\ progress_callback' = FALSE
    /\ i' = 0
    /\ features_list' = << >>
    /\ valid_paths' = << >>
    /\ similarity_matrix' = << >>
    /\ groups' = << >>
    /\ result' = << >>
    /\ log' = << >>
    /\ UNCHANGED <<world, others, resnet_model, loads, instance_loads, feature_cache, calls>>

Step == Progress \/ Extract \/ ReturnEmpty \/ FindGroups \/ SortAndReturn \/ Release

(***************************************************************************)
(* Spec: any world of NumImages images, some of them unreadable; the       *)
(* caller passes a list of at most MaxLen paths, repeats allowed, with or  *)
(* without a callback, MaxCalls times.                                     *)
(***************************************************************************)
Inputs == SeqsUpTo(Images, MaxLen)

InitFrame ==
    /\ resnet_model = FALSE
    /\ feature_cache = EmptyCache
    /\ pc = "idle"
    /\ image_paths = << >>
    /\ threshold = 0
    /\ progress_callback = FALSE
    /\ i = 0
    /\ features_list = << >>
    /\ valid_paths = << >>
    /\ similarity_matrix = << >>
    /\ groups = << >>
    /\ result = << >>
    /\ calls = 0
    /\ log = << >>
    /\ clip_model = FALSE
    /\ location_database = NotLoaded
    /\ loads = NoLoads
    /\ instance_loads = NoLoads
    /\ last = NoOp
    /\ ops = 0

\* A world in which only compute_similarity is looked at: the store is
\* there and empty.
NoRanking ==
    /\ clip_available = FALSE
    /\ clip_sim = << >>
    /\ csv = NoSeed
    /\ db_exists = TRUE
    /\ db_rows = << >>

Init ==
    /\ cos \in SymMatrices(NumImages)
    /\ readable \in SUBSET (1..NumImages)
    /\ InitFrame
    /\ window = NoWindow
    /\ NoRanking

Next ==
    \/ /\ pc = "idle"
       /\ calls < MaxCalls
       /\ \E paths \in Inputs, t \in Levels, cb \in BOOLEAN :
              Call(paths, t, cb)
    \/ Step

Spec == Init /\ [][Next]_vars

(***************************************************************************)
(* SpecGroups: worlds of GroupImages readable images, and the test         *)
(* scenario of five images (three at 0.9 to each other, two at 0.95, 0.2   *)
(* across); the caller passes the first k images once, in order.  The      *)
(* matrix being arbitrary, a fixed order loses no case.                    *)
(***************************************************************************)
ScenarioA ==
    [a \in 1..5 |-> [b \in 1..5 |->
        IF a = b THEN Unit
        ELSE IF a <= 3 /\ b <= 3 THEN 90
        ELSE IF a >= 4 /\ b >= 4 THEN 95
        ELSE 20]]

ScenarioThreshold == 85

InitGroups ==
    /\ cos \in SymMatrices(GroupImages) \cup {ScenarioA}
    /\ readable = DOMAIN cos
    /\ InitFrame
    /\ window = NoWindow
    /\ NoRanking

NextGroups ==
    \/ /\ pc = "idle"
       /\ calls < 1
       /\ \E k \in 0..Cardinality(Images), t \in Levels \cup {ScenarioThreshold} :
              Call(Indices(k), t, TRUE)
    \/ Step

SpecGroups == InitGroups /\ [][NextGroups]_vars

(***************************************************************************)
(* The whole call as a function of its input, in the current world: the    *)
(* loop of ExtractStep from an emptied cache, the check, the grouping and  *)
(* the sort.                                                               *)
(***************************************************************************)
RECURSIVE ExtractAll(_, _)
ExtractAll(paths, acc) ==
    IF paths = << >> THEN acc ELSE ExtractAll(Tail(paths), ExtractStep(acc, Head(paths)))

ComputeSimilarityOf(paths, t) ==
    LET acc == ExtractAll(paths, [cache |-> ClearCache(feature_cache),
                                  features_list |-> << >>, valid_paths |-> << >>])
    IN  IF TooFew(acc.features_list) THEN << >>
        ELSE SortGroups(FindSimilarGroups(acc.valid_paths,
                                          SimilarityMatrix(acc.features_list), t))

(***************************************************************************)
(* Properties                                                              *)
(***************************************************************************)
Done == pc = "done"

Distinct(s) == \A a, b \in DOMAIN s : a # b => s[a] # s[b]

Members(g) == Range(g.paths)

\* The positions of the input whose extraction succeeds.
ValidPositions == {k \in DOMAIN image_paths : image_paths[k] \in readable}

\* C1: for distinct image references, a symmetric matrix with unit diagonal
\* and a threshold in [0,1], the returned groups are pairwise disjoint.
C1_GroupsDisjoint ==
    (Done /\ Distinct(image_paths)) =>
        \A k, l \in DOMAIN result :
            k # l => Members(result[k]) \cap Members(result[l]) = {}

\* The k-th group formed: its seed against the earlier groups, its other
\* members against the seed.
SeedRule(k) ==
    LET g == groups[k]
        seed == g.paths[1]
    IN  /\ \A e \in 1..(k - 1) : seed \notin Members(groups[e])
        /\ \A p \in 2..Len(g.paths) : cos[seed][g.paths[p]] >= threshold

\* C2: every returned group is one of the groups formed in the pass; the seed
\* (first member) of a group is in no group formed before it, and every other
\* member is at similarity >= threshold to the seed (nothing is asked of two
\* members that are not the seed).
C2_SeedRule ==
    Done =>
        /\ \A k \in DOMAIN groups : SeedRule(k)
        /\ Len(result) = Len(groups)
        /\ \A r \in DOMAIN result : \E k \in DOMAIN groups : result[r] = groups[k]

\* Two groups came back, one of them with two collected members that are not
\* similar to each other.
C2_Witness ==
    /\ Done
    /\ Len(result) >= 2
    /\ \E r \in DOMAIN result : \E p, q \in 2..Len(result[r].paths) :
           cos[result[r].paths[p]][result[r].paths[q]] < threshold

\* The sum of cos over a set of two-element sets.
RECURSIVE PairSum(_)
PairSum(P) ==
    IF P = {} THEN 0
    ELSE LET p == CHOOSE x \in P : TRUE
             a == CHOOSE x \in p : TRUE
             b == CHOOSE y \in p : y # a
         IN  cos[a][b] + PairSum(P \ {p})

UnorderedPairs(S) == {{a, b} : a, b \in S} \ {{a} : a \in S}

\* C3: avg_similarity of a returned group is the mean of the similarities of
\* all unordered pairs of distinct members, each pair once.
C3_AvgIsPairMean ==
    (Done /\ Distinct(image_paths)) =>
        \A r \in DOMAIN result :
            LET P == UnorderedPairs(Members(result[r]))
            IN  /\ P # {}
                /\ result[r].avg.num * Cardinality(P) = result[r].avg.den * PairSum(P)

\* A group of three or more came back in which a pair of collected members
\* differs in similarity from a seed pair.
C3_Witness ==
    /\ Done
    /\ \E r \in DOMAIN result :
           /\ Len(result[r].paths) >= 3
           /\ cos[result[r].paths[2]][result[r].paths[3]]
                  # cos[result[r].paths[1]][result[r].paths[2]]

\* C4: with fewer than 2 images yielding an embedding the call returns [],
\* whatever the threshold and however long the input.
C4_FewValidGivesEmpty ==
    (Done /\ Cardinality(ValidPositions) < 2) => result = << >>

\* Two or more images were passed, all but one failed, at threshold 0.
C4_Witness ==
    /\ Done
    /\ Len(image_paths) >= 2
    /\ Cardinality(ValidPositions) = 1
    /\ threshold = 0
    /\ result = << >>

\* C5: the returned list is sorted descending by avg_similarity.
C5_SortedDescending ==
    Done => \A k \in 1..(Len(result) - 1) : FracGeq(result[k].avg, result[k + 1].avg)

\* The sort changed the order in which the groups were formed.
C5_Witness ==
    /\ Done
    /\ Len(groups) >= 2
    /\ result # groups

\* The images that went into the matrix.
Retained == Range(valid_paths)

HasNeighbour(a) == \E b \in Retained \ {a} : cos[b][a] >= threshold

\* C6: a returned group has at least two members, and each member has another
\* retained image at similarity >= threshold; at threshold 1.0 with no two
\* identical embeddings nothing is returned.
C6_NoLonelyMember ==
    (Done /\ Distinct(image_paths)) =>
        /\ \A r \in DOMAIN result :
               /\ Len(result[r].paths) >= 2
               /\ \A a \in Members(result[r]) : HasNeighbour(a)
        /\ (threshold = Unit /\ \A a, b \in Retained : a # b => cos[a][b] < Unit)
               => result = << >>

\* Groups came back while a retained image without neighbour is in none.
C6_Witness ==
    /\ Done
    /\ result # << >>
    /\ \E a \in Retained :
           /\ ~HasNeighbour(a)
           /\ \A r \in DOMAIN result : a \notin Members(result[r])

\* The input without the images whose extraction fails.
WithoutFailed(paths) == SelectSeq(paths, LAMBDA p : p \in readable)

\* C7: with failing images the call still returns; no returned group holds a
\* failed image, and the result is that of the call on the input with the
\* failed images removed.
C7_FailuresAreDropped ==
    Done =>
        /\ \A r \in DOMAIN result : Members(result[r]) \subseteq readable
        /\ result = ComputeSimilarityOf(WithoutFailed(image_paths), threshold)

\* An image failed, and groups came back.
C7_Witness ==
    /\ Done
    /\ \E k \in DOMAIN image_paths : image_paths[k] \notin readable
    /\ result # << >>

\* `similarity >= threshold` as a relation on the retained images, and its
\* clusters when it is transitive.
Close(a, b) == cos[a][b] >= threshold

Clustered == \A a, b, c \in Retained : (Close(a, b) /\ Close(b, c)) => Close(a, c)

ClusterOf(a) == {b \in Retained : Close(a, b)}

BigClusters == {C \in {ClusterOf(a) : a \in Retained} : Cardinality(C) >= 2}

\* C8: when `similarity >= threshold` splits the retained images into
\* clusters, the call returns one group per cluster of two or more, with that
\* cluster's members, in descending order of average.
C8_ClustersBecomeGroups ==
    (Done /\ Distinct(image_paths) /\ Clustered) =>
        /\ Len(result) = Cardinality(BigClusters)
        /\ {Members(result[r]) : r \in DOMAIN result} = BigClusters
        /\ \A r \in DOMAIN result :
               Cardinality(Members(result[r])) = Len(result[r].paths)
        /\ \A k \in 1..(Len(result) - 1) :
               FracGeq(result[k].avg, result[k + 1].avg)

\* The scenario of five images at threshold 0.85: {4,5} at 0.95 first, then
\* {1,2,3} at 0.9.
C8_Witness ==
    /\ Done
    /\ cos = ScenarioA
    /\ threshold = ScenarioThreshold
    /\ image_paths = Indices(5)
    /\ result = << [paths |-> <<4, 5>>, avg |-> [num |-> 95, den |-> 1]],
                   [paths |-> <<1, 2, 3>>, avg |-> [num |-> 90, den |-> 1]] >>

\* progress(0, n), extraction of image 0, progress(1, n), extraction of
\* image 1, ...
ExpectedLog(n) ==
    [k \in 1..(2 * n) |->
        IF k % 2 = 1
        THEN [ev |-> "progress", current |-> (k - 1) \div 2, total |-> n]
        ELSE [ev |-> "extract", current |-> (k - 2) \div 2, total |-> n]]

\* C9: with a callback, the events of a call are progress(0, n), extraction
\* of image 0, progress(1, n), extraction of image 1, ...: one progress call
\* per image, right before its extraction, whether or not that extraction
\* fails.
C9_ProgressBeforeEachExtraction ==
    (pc # "idle" /\ progress_callback) =>
        LET expected == ExpectedLog(Len(image_paths))
        IN  /\ Len(log) <= Len(expected)
            /\ log = SubSeq(expected, 1, Len(log))
            /\ pc \in {"check", "sort", "done"} => log = expected

\* A call with a callback returned after an extraction failed.
C9_Witness ==
    /\ Done
    /\ progress_callback
    /\ Len(image_paths) >= 2
    /\ \E k \in DOMAIN image_paths : image_paths[k] \notin readable

\* The cache is empty when the first extraction starts, and every vector in
\* the cache or in use was computed by the current call.
CacheFresh ==
    /\ (pc \in {"progress", "extract"} /\ i = 0) => feature_cache = EmptyCache
    /\ pc # "idle" => \A p \in DOMAIN feature_cache : feature_cache[p].epoch = calls
    /\ \A k \in DOMAIN features_list : features_list[k].epoch = calls

\* During a call no entry of the cache is removed or replaced.
CacheAppendOnly ==
    pc # "idle" =>
        \A p \in DOMAIN feature_cache :
            p \in DOMAIN feature_cache' /\ feature_cache'[p] = feature_cache[p]

\* C10: a call starts its extractions on an empty cache and from then on only
\* adds entries; every vector in the cache or in use was computed by the
\* current call, none by an earlier one.
C10_CacheFreshPerCall == [](CacheFresh) /\ [][CacheAppendOnly]_vars

\* A second call has extracted vectors.
C10_Witness ==
    /\ Done
    /\ calls = 2
    /\ features_list # << >>

(***************************************************************************)
(* LocationDatabase: the store and its seeding from world_locations.csv    *)
(*                                                                         *)
(* A seed file is a header (the columns it names) and data rows; a field   *)
(* is the text csv.DictReader hands out, or Missing for a row shorter than *)
(* the header (DictReader fills it with None).  A stored row holds the     *)
(* parsed numbers, in tenths.                                              *)
(***************************************************************************)
MaxRows == 2

Columns == {"latitude", "longitude", "description"}

Missing == "<None>"

NumText == {"1.5", "2.5"}

\* float(text) of a numeric text, in tenths.
Float(text) == CASE text = "1.5" -> 15 [] text = "2.5" -> 25

\* What reading one field does: row[col] raises KeyError for a column the
\* header lacks; float() raises TypeError on None and ValueError on a text
\* that is no number.  description is read but not converted.
FieldError(header, row, col) ==
    IF col \notin header THEN "KeyError"
    ELSE IF col = "description" THEN "none"
    ELSE IF row[col] = Missing THEN "TypeError"
    ELSE IF row[col] \notin NumText THEN "ValueError"
    ELSE "none"

\* The tuple is built left to right: latitude, longitude, description.
RowError(header, row) ==
    LET lat == FieldError(header, row, "latitude")
        lon == FieldError(header, row, "longitude")
    IN  IF lat # "none" THEN lat
        ELSE IF lon # "none" THEN lon
        ELSE FieldError(header, row, "description")

\* The first exception of the loop over the rows.
RECURSIVE FirstError(_, _)
FirstError(header, rows) ==
    IF rows = << >> THEN "none"
    ELSE LET e == RowError(header, Head(rows))
         IN  IF e # "none" THEN e ELSE FirstError(header, Tail(rows))

\* except (KeyError, ValueError): re-raised as ValueError.
Caught(e) == e \in {"KeyError", "ValueError"}

Parsed(row) ==
    [latitude |-> Float(row.latitude), longitude |-> Float(row.longitude),
     description |-> row.description]

\* _load_locations_from_csv
LoadLocationsFromCsv(seed) ==
    IF ~seed.exists
    THEN [raised |-> "FileNotFoundError", locations |-> << >>]
    ELSE LET e == FirstError(seed.header, seed.rows)
         IN  IF Caught(e) THEN [raised |-> "ValueError", locations |-> << >>]
             ELSE IF e # "none" THEN [raised |-> e, locations |-> << >>]
             ELSE IF seed.rows = << >>
                  THEN [raised |-> "ValueError", locations |-> << >>]
                  ELSE [raised |-> "none",
                        locations |-> [k \in DOMAIN seed.rows |-> Parsed(seed.rows[k])]]

\* _initialize_database, after CREATE TABLE and CREATE INDEX: the rows are
\* loaded, inserted and committed.  description is NOT NULL, so a row
\* without one fails the insert, and the uncommitted inserts are lost.
InitializeDatabase(seed, rows) ==
    LET l == LoadLocationsFromCsv(seed)
    IN  IF l.raised # "none" THEN [raised |-> l.raised, rows |-> rows]
        ELSE IF \E k \in DOMAIN l.locations : l.locations[k].description = Missing
             THEN [raised |-> "IntegrityError", rows |-> rows]
             ELSE [raised |-> "none", rows |-> rows \o l.locations]

\* `if not self.db_path.exists()`  (AlwaysInit: the variant without the test.)
AlwaysInit(exists) == TRUE

NeedsInit(exists) == ~exists

\* LocationDatabase(db_path): sqlite3.connect creates the file and the
\* CREATE statements are committed as they run, before the seed is read.
ConstructStore(exists, seed, rows) ==
    IF NeedsInit(exists)
    THEN LET r == InitializeDatabase(seed, rows)
         IN  [exists |-> TRUE, rows |-> r.rows, raised |-> r.raised]
    ELSE [exists |-> exists, rows |-> rows, raised |-> "none"]

\* get_all_locations
GetAllLocations(rows) ==
    [k \in DOMAIN rows |-> <<rows[k].latitude, rows[k].longitude, rows[k].description>>]

frame == <<pc, image_paths, threshold, progress_callback, i, features_list,
           valid_paths, similarity_matrix, groups, result, calls, log>>

service == <<resnet_model, feature_cache, clip_model, location_database,
             loads, instance_loads>>

\* LocationDatabase(db_path), with the seed file the environment holds.
Construct ==
    /\ LET r == ConstructStore(db_exists, csv, db_rows)
       IN  /\ db_exists' = r.exists
           /\ db_rows' = r.rows
           /\ last' = [op |-> "LocationDatabase", seed |-> csv,
                       existed |-> db_exists, raised |-> r.raised]
    /\ ops' = ops + 1
    /\ UNCHANGED <<world, frame, window, service, clip_available, clip_sim, csv>>

\* The environment replaces the seed file between two constructions.
SeedChange(seed) ==
    /\ seed # csv
    /\ csv' = seed
    /\ ops' = ops + 1
    /\ UNCHANGED <<world, frame, window, service, clip_available, clip_sim, db_exists,
                   db_rows, last>>

(***************************************************************************)
(* The specification of the store: any seed file, no store yet; then       *)
(* constructions and changes of the seed file.                             *)
(***************************************************************************)
MaxStoreOps == 3

Fields ==
    [latitude : {"1.5", "abc", Missing}, longitude : {"2.5", Missing},
     description : {"Paris", Missing}]

\* A file whose header lacks column c: its rows have no such field.
Without(c) == [[latitude |-> "1.5", longitude |-> "2.5", description |-> "Paris"]
                  EXCEPT ![c] = Missing]

Seeds ==
    {NoSeed}
    \cup {[exists |-> TRUE, header |-> Columns, rows |-> r] : r \in SeqsUpTo(Fields, MaxRows)}
    \cup {[exists |-> TRUE, header |-> Columns \ {c}, rows |-> <<Without(c)>>] : c \in Columns}

InitStore ==
    /\ cos \in SymMatrices(1)
    /\ readable = {}
    /\ InitFrame
    /\ window = NoWindow
    /\ clip_available = FALSE
    /\ clip_sim = << >>
    /\ csv \in Seeds
    /\ db_exists = FALSE
    /\ db_rows = << >>

\* A change of the seed file after the last construction is not looked at.
NextStore ==
    \/ /\ ops < MaxStoreOps
       /\ Construct
    \/ /\ ops < MaxStoreOps - 1
       /\ \E seed \in Seeds : SeedChange(seed)

SpecStore == InitStore /\ [][NextStore]_vars

(***************************************************************************)
(* Properties of the store                                                 *)
(***************************************************************************)
\* The last construction returned a store object.
StoreConstructed == last.op = "LocationDatabase" /\ last.raised = "none"

\* This step is a construction (a change of the seed file changes csv).
ConstructStep == ops' = ops + 1 /\ csv' = csv

\* C15: once a construction of the store at the path has succeeded, no later
\* step, be it a construction or a change of the seed file, changes what
\* get_all_locations() returns (same rows, same count), and every later
\* construction succeeds.
C15_NoReseeding ==
    [][StoreConstructed =>
          /\ GetAllLocations(db_rows') = GetAllLocations(db_rows)
          /\ StoreConstructed']_vars

\* A second construction over a seeded store, the seed file having changed
\* to one of another length since the seeding.
C15_Witness ==
    /\ StoreConstructed
    /\ last.existed
    /\ db_rows # << >>
    /\ LoadLocationsFromCsv(last.seed).raised = "none"
    /\ Len(last.seed.rows) # Len(db_rows)

\* The last construction failed as the specification names it.
SeedingFailed ==
    /\ last.op = "LocationDatabase"
    /\ last.raised \in {"FileNotFoundError", "ValueError"}

\* The store holds exactly the rows of the seed file of the last construction.
CompletelySeeded ==
    /\ db_rows # << >>
    /\ db_rows = LoadLocationsFromCsv(last.seed).locations

\* C16: after a construction failed with FileNotFoundError or ValueError, a
\* later construction at the same path that succeeds has performed a
\* complete seeding: it does not hand out an empty or partial store.
C16_NoStoreAfterFailedSeeding ==
    [][(SeedingFailed /\ ConstructStep /\ StoreConstructed') => CompletelySeeded']_vars

\* A seed file the specification calls invalid: no data row, a required
\* column absent, or a latitude or longitude that is no number.
InvalidSeed(seed) ==
    \/ seed.rows = << >>
    \/ Columns \ seed.header # {}
    \/ \E k \in DOMAIN seed.rows :
           seed.rows[k].latitude \notin NumText \/ seed.rows[k].longitude \notin NumText

\* C17: a construction that finds no store fails with FileNotFoundError when
\* the seed file is missing and with ValueError when the seed file is
\* invalid, and inserts no row in either case.
C17_SeedFailureModes ==
    (last.op = "LocationDatabase" /\ ~last.existed) =>
        /\ ~last.seed.exists =>
               (last.raised = "FileNotFoundError" /\ db_rows = << >>)
        /\ (last.seed.exists /\ InvalidSeed(last.seed)) =>
               (last.raised = "ValueError" /\ db_rows = << >>)

\* C17 without the rows shorter than the header: every field read is a text.
NoShortRow(seed) ==
    \A k \in DOMAIN seed.rows :
        seed.rows[k].latitude # Missing /\ seed.rows[k].longitude # Missing

SeedFailureModesOnFullRows ==
    (last.op = "LocationDatabase" /\ ~last.existed /\ NoShortRow(last.seed)) =>
        /\ ~last.seed.exists =>
               (last.raised = "FileNotFoundError" /\ db_rows = << >>)
        /\ (last.seed.exists /\ InvalidSeed(last.seed)) =>
               (last.raised = "ValueError" /\ db_rows = << >>)

(***************************************************************************)
(* predict_location: the joint model, the candidates, softmax and topk     *)
(*                                                                         *)
(* A cosine is -1, 0 or 1; a probability is a fraction of exponentials     *)
(* taken from a table of e^x in thousandths.                               *)
(***************************************************************************)
SimLevels == {-1, 0, 1}

Descs == {"Paris", "Rome"}

ExpMilli(x) == CASE x = -1 -> 368 [] x = 0 -> 1000 [] x = 1 -> 2718 [] x = 2 -> 7389

\* `if not CLIP_AVAILABLE`  (NeverUnavailable: the variant without the test.)
NeverUnavailable == FALSE

Unavailable == ~clip_available

\* load_clip_model: `if self.clip_model is not None or not CLIP_AVAILABLE:
\* return`.  (ClipLoadSkippedIfAbsent: the variant that tests only
\* CLIP_AVAILABLE.)
ClipLoadSkippedIfAbsent(model) == ~clip_available

ClipLoadSkipped(model) == model \/ ~clip_available

\* load_clip_model on the current service; fault: from_pretrained raises.
\* loaded is the number of weight loads performed.
ClipLoad(fault) ==
    IF ClipLoadSkipped(clip_model)
    THEN [model |-> clip_model, loaded |-> 0, raised |-> FALSE, attempted |-> FALSE]
    ELSE IF fault
         THEN [model |-> FALSE, loaded |-> 0, raised |-> TRUE, attempted |-> TRUE]
         ELSE [model |-> TRUE, loaded |-> 1, raised |-> FALSE, attempted |-> TRUE]

\* `if self._location_database is None`: the store is read.
\* (StoreReadAlways: the variant without the test.)
StoreReadAlways(memo) == TRUE

StoreRead(memo) == ~memo.loaded

\* _load_location_database: read from the store once, then reused.
LoadLocationDatabase(memo, rows) ==
    IF StoreRead(memo) THEN [loaded |-> TRUE, rows |-> GetAllLocations(rows)] ELSE memo

\* similarity = (image_embeds @ text_embeds.T).squeeze(0)
Similarity(path, cands) == [k \in DOMAIN cands |-> clip_sim[path][cands[k][3]]]

\* torch.nn.functional.softmax(similarity, dim=0)
\* (Exponentials: the variant that does not divide by their sum.)
Exponentials(sim) ==
    LET e == [k \in DOMAIN sim |-> ExpMilli(sim[k])]
    IN  [k \in DOMAIN sim |-> Frac(e[k], 1000)]

Softmax(sim) ==
    LET e == [k \in DOMAIN sim |-> ExpMilli(sim[k])]
    IN  [k \in DOMAIN sim |-> Frac(e[k], SumSeq(e))]

\* min(top_k, len(location_database))
K(top_k, n) == IF top_k < n THEN top_k ELSE n

\* torch.topk(probabilities, k): the indices of k largest entries, largest
\* first; which of several equal entries comes first, or is taken at the
\* cut, is not specified.  (TopKUnordered: the k largest in any order.)
TopKUnordered(probs, k) ==
    {idx \in [1..k -> DOMAIN probs] :
        /\ \A a, b \in 1..k : a # b => idx[a] # idx[b]
        /\ \A a \in 1..k : \A j \in DOMAIN probs \ Range(idx) :
               FracGeq(probs[idx[a]], probs[j])}

TopK(probs, k) ==
    {idx \in [1..k -> DOMAIN probs] :
        /\ \A a, b \in 1..k : a # b => idx[a] # idx[b]
        /\ \A a, b \in 1..k : a < b => FracGeq(probs[idx[a]], probs[idx[b]])
        /\ \A a \in 1..k : \A j \in DOMAIN probs \ Range(idx) :
               FracGeq(probs[idx[a]], probs[j])}

\* predictions.append((float(lat), float(lon), float(prob))), with
\* lat, lon, _ = location_database[idx].  (PredictionsByRank: the variant
\* that takes the coordinates of the a-th candidate for the a-th entry.)
PredictionsByRank(cands, probs, idx) ==
    [a \in DOMAIN idx |-> <<cands[a][1], cands[a][2], probs[idx[a]]>>]

Predictions(cands, probs, idx) ==
    [a \in DOMAIN idx |-> <<cands[idx[a]][1], cands[idx[a]][2], probs[idx[a]]>>]

\* What a predict_location call has done when nothing was done yet.
\* failed names the step that raised; raised: the exception left the call.
Returned(path, top_k) ==
    [op |-> "predict_location", path |-> path, top_k |-> top_k, ret |-> << >>,
     raised |-> FALSE, failed |-> "none", load_attempted |-> FALSE,
     image_opened |-> FALSE, db_read |-> FALSE, probabilities |-> << >>]

\* predict_location(path, top_k): the outcomes the call can have, each with
\* the fields it leaves in the service.  fault is what the environment makes
\* fail: "load" (from_pretrained raises) or "embed" (the processor or the
\* model raises).  With no candidate the return is [], whether the processor
\* raises on an empty text list or topk(..., 0) selects nothing.
PredictLocation(path, top_k, fault) ==
    LET same == [model |-> clip_model, loaded |-> 0, memo |-> location_database]
        B == Returned(path, top_k)
    IN  IF Unavailable
        THEN {same @@ [last |-> B]}
        ELSE
        LET l == ClipLoad(fault = "load")
            B1 == [B EXCEPT !.load_attempted = l.attempted]
            after == [model |-> l.model, loaded |-> l.loaded, memo |-> location_database]
        IN  IF l.raised
            THEN {after @@ [last |-> [B1 EXCEPT !.raised = TRUE, !.failed = "load"]]}
            ELSE
            LET B2 == [B1 EXCEPT !.image_opened = TRUE]
            IN  IF path \notin readable
                THEN {after @@ [last |-> [B2 EXCEPT !.failed = "image"]]}
                ELSE
                LET memo == LoadLocationDatabase(location_database, db_rows)
                    B3 == [B2 EXCEPT !.db_read = StoreRead(location_database)]
                    read == [after EXCEPT !.memo = memo]
                    cands == memo.rows
                IN  IF ~l.model \/ fault = "embed"
                    THEN {read @@ [last |-> [B3 EXCEPT !.failed = "embed"]]}
                    ELSE IF cands = << >>
                    THEN {read @@ [last |-> B3]}
                    ELSE
                    LET probs == Softmax(Similarity(path, cands))
                    IN  {read @@ [last |-> [B3 EXCEPT
                                    !.ret = Predictions(cands, probs, idx),
                                    !.probabilities = probs]] :
                            idx \in TopK(probs, K(top_k, Len(cands)))}

(***************************************************************************)
(* The operations of AIService outside compute_similarity, and the         *)
(* settings dialog of the main window                                      *)
(***************************************************************************)
\* What a predict_location call does to the service and to the store.
PredictEffect(path, top_k, fault) ==
    /\ \E out \in PredictLocation(path, top_k, fault) :
           /\ clip_model' = out.model
           /\ loads' = [loads EXCEPT !.clip = @ + out.loaded]
           /\ instance_loads' = [instance_loads EXCEPT !.clip = @ + out.loaded]
           /\ location_database' = out.memo
           /\ last' = out.last
    /\ ops' = ops + 1
    /\ UNCHANGED <<world, frame, resnet_model, feature_cache, clip_available,
                   clip_sim, csv, db_exists, db_rows>>

\* predict_location(path, top_k), called on the service directly.
Predict(path, top_k, fault) ==
    /\ PredictEffect(path, top_k, fault)
    /\ UNCHANGED window

\* extract_features reaches `self.resnet_model(image_tensor)`: the path is
\* not cached, the image opens and the transform is there.
\* (ModelAppliedUncached: the variant without the cache test.)
ModelAppliedUncached(cache, path) == resnet_model /\ path \in readable

ModelApplied(cache, path) ==
    path \notin DOMAIN cache /\ resnet_model /\ path \in readable

\* The previous direct operation was an embed of this path that failed.
FailedBefore(path) ==
    last.op = "extract_features" /\ last.path = path /\ last.ret = None

\* extract_features(path), called on the service directly.
Embed(path) ==
    /\ LET r == ExtractFeatures(feature_cache, path)
       IN  /\ feature_cache' = r.cache
           /\ last' = [op |-> "extract_features", path |-> path, ret |-> r.features,
                       applied |-> ModelApplied(feature_cache, path),
                       retried |-> FailedBefore(path)]
    /\ ops' = ops + 1
    /\ UNCHANGED <<world, frame, window, resnet_model, clip_model, location_database,
                   loads, instance_loads, clip_available, clip_sim, csv,
                   db_exists, db_rows>>

\* clear_cache()
ClearCacheCall ==
    /\ feature_cache' = ClearCache(feature_cache)
    /\ last' = [op |-> "clear_cache"]
    /\ ops' = ops + 1
    /\ UNCHANGED <<world, frame, window, resnet_model, clip_model, location_database,
                   loads, instance_loads, clip_available, clip_sim, csv,
                   db_exists, db_rows>>

\* load_resnet_model(), called on the service directly.
LoadResnet ==
    /\ resnet_model' = TRUE
    /\ loads' = [loads EXCEPT !.resnet = LoadsAfter(resnet_model, @)]
    /\ instance_loads' = [instance_loads EXCEPT !.resnet = LoadsAfter(resnet_model, @)]
    /\ last' = [op |-> "load_resnet_model", loaded |-> resnet_model]
    /\ ops' = ops + 1
    /\ UNCHANGED <<world, frame, window, feature_cache, clip_model, location_database,
                   clip_available, clip_sim, csv, db_exists, db_rows>>

\* load_clip_model(), called on the service directly.
LoadClip(fault) ==
    /\ LET l == ClipLoad(fault)
       IN  /\ clip_model' = l.model
           /\ loads' = [loads EXCEPT !.clip = @ + l.loaded]
           /\ instance_loads' = [instance_loads EXCEPT !.clip = @ + l.loaded]
           /\ last' = [op |-> "load_clip_model", loaded |-> clip_model,
                       raised |-> l.raised]
    /\ ops' = ops + 1
    /\ UNCHANGED <<world, frame, window, resnet_model, feature_cache, location_database,
                   clip_available, clip_sim, csv, db_exists, db_rows>>

\* _show_ai_settings: when the dialog is accepted, self.ai_service becomes a
\* new AIService, whose construction constructs the location store; the
\* models, the caches and the candidate list of the old service go with it.
ShowAISettings(accepted) ==
    /\ LET st == ConstructStore(db_exists, csv, db_rows)
           replaced == accepted /\ st.raised = "none"
       IN  /\ db_exists' = IF accepted THEN st.exists ELSE db_exists
           /\ db_rows' = IF accepted THEN st.rows ELSE db_rows
           /\ resnet_model' = IF replaced THEN FALSE ELSE resnet_model
           /\ clip_model' = IF replaced THEN FALSE ELSE clip_model
           /\ feature_cache' = IF replaced THEN EmptyCache ELSE feature_cache
           /\ location_database' = IF replaced THEN NotLoaded ELSE location_database
           /\ instance_loads' = IF replaced THEN NoLoads ELSE instance_loads
           /\ last' = [op |-> "show_ai_settings", accepted |-> accepted,
                       replaced |-> replaced]
    /\ ops' = ops + 1
    /\ UNCHANGED <<world, frame, window, loads, clip_available, clip_sim, csv>>

(***************************************************************************)
(* The specification of the service: one process, two images, a seeded     *)
(* store; any MaxServiceOps operations on the current AIService, the       *)
(* settings dialog among them.                                             *)
(***************************************************************************)
ServiceImages == 2

MaxServiceOps == 4

\* The stored rows of the candidates described by descs, in order.
Candidates(descs) ==
    [k \in DOMAIN descs |->
        [latitude |-> 10 * k, longitude |-> 10 * k + 5, description |-> descs[k]]]

InitService ==
    /\ cos \in SymMatrices(ServiceImages)
    /\ readable \in SUBSET (1..ServiceImages)
    /\ InitFrame
    /\ window = NoWindow
    /\ clip_available \in BOOLEAN
    /\ clip_sim = [p \in readable |-> [d \in Descs |-> 0]]
    /\ csv = NoSeed
    /\ db_exists = TRUE
    /\ db_rows = Candidates(<<"Paris", "Rome">>)

\* The operations run on one thread: one starts when none is running.
Ready == pc = "idle" /\ calls + ops < MaxServiceOps

NextService ==
    \/ /\ Ready
       /\ \E paths \in SeqsUpTo(Images, ServiceImages), cb \in BOOLEAN :
              Call(paths, Unit, cb)
    \/ Step
    \/ /\ Ready
       /\ \E path \in Images : Embed(path)
    \/ /\ Ready
       /\ ClearCacheCall
    \/ /\ Ready
       /\ LoadResnet
    \/ /\ Ready
       /\ \E fault \in BOOLEAN : LoadClip(fault)
    \/ /\ Ready
       /\ \E path \in Images, fault \in {"none", "load", "embed"} :
              Predict(path, 1, fault)
    \/ /\ Ready
       /\ \E accepted \in BOOLEAN : ShowAISettings(accepted)

SpecService == InitService /\ [][NextService]_vars

(***************************************************************************)
(* Properties of the embedder and of model loading                         *)
(***************************************************************************)
\* The kind of this step: an operation called on the service directly
\* counts in ops and leaves its name in last.
OpStep(op) == ops' # ops /\ last'.op = op

EmbedStep == OpStep("extract_features")

\* This step empties the cache or replaces the service: clear_cache, the
\* start of compute_similarity, an accepted settings dialog.
CacheCleared ==
    \/ OpStep("clear_cache")
    \/ calls' # calls
    \/ OpStep("show_ai_settings") /\ last'.replaced

\* C11: a vector memoized by a successful embed stays in the cache of that
\* embedder until the cache is cleared; an embed of a memoized image returns
\* the memoized vector, does not apply the model and leaves the cache as it
\* is; clear_cache() leaves the cache empty, and an embed of an image that is
\* not memoized applies the model (or fails and returns None).
C11_Memoization ==
    [][/\ (EmbedStep /\ last'.ret # None) =>
              (/\ last'.path \in DOMAIN feature_cache'
               /\ feature_cache'[last'.path] = last'.ret)
       /\ ~CacheCleared =>
              \A p \in DOMAIN feature_cache :
                  p \in DOMAIN feature_cache' /\ feature_cache'[p] = feature_cache[p]
       /\ (EmbedStep /\ last'.path \in DOMAIN feature_cache) =>
              (/\ last'.ret = feature_cache[last'.path]
               /\ ~last'.applied
               /\ feature_cache' = feature_cache)
       /\ OpStep("clear_cache") => feature_cache' = EmptyCache
       /\ (EmbedStep /\ last'.path \notin DOMAIN feature_cache) =>
              (last'.applied \/ last'.ret = None)]_vars

\* An embed answered from the cache, and nothing else in it.
C11_Witness ==
    /\ last.op = "extract_features"
    /\ last.ret # None
    /\ ~last.applied
    /\ DOMAIN feature_cache = {last.path}

\* C12: an embed of a readable image on an embedder that has loaded no
\* weights yet loads them and returns a vector.
C12_LazyLoadOnFirstEmbed ==
    [][(EmbedStep /\ instance_loads.resnet = 0 /\ last'.path \in readable) =>
           (last'.ret # None /\ instance_loads'.resnet = 1)]_vars

\* C13 as stated: no model's weights are loaded twice in one process.
C13_LoadedOncePerProcess == loads.resnet <= 1 /\ loads.clip <= 1

\* Each model of the current service has been loaded once if it is loaded,
\* and never otherwise.
LoadedOnce ==
    /\ instance_loads.resnet = IF resnet_model THEN 1 ELSE 0
    /\ instance_loads.clip = IF clip_model THEN 1 ELSE 0

\* A loaded model stays loaded while the service is not replaced.
StaysLoaded ==
    \/ OpStep("show_ai_settings") /\ last'.replaced
    \/ /\ resnet_model => resnet_model'
       /\ clip_model => clip_model'

\* Weights are loaded in this step only by a service that had not loaded them.
LoadsWhenUnloaded ==
    /\ loads'.resnet # loads.resnet => (~resnet_model /\ loads'.resnet = loads.resnet + 1)
    /\ loads'.clip # loads.clip => (~clip_model /\ loads'.clip = loads.clip + 1)

\* C13, amended: across any sequence of clustering, ranking and settings
\* operations each model's weights are loaded at most once per AIService;
\* once loaded they stay loaded and are reused until an accepted settings
\* dialog replaces the service by a new one, which loads them again on use.
C13_LoadedOncePerService ==
    [](LoadedOnce) /\ [][StaysLoaded /\ LoadsWhenUnloaded]_vars

\* The second service of the process has loaded a model the first one had
\* loaded too.
C13_Witness ==
    /\ loads.resnet = 2
    /\ instance_loads.resnet = 1
    /\ resnet_model

\* C14: load_resnet_model() on a service whose vision model is loaded, and
\* load_clip_model() on a service whose joint model is loaded, change no
\* field of the service: the model stays the one loaded, no weights are
\* loaded, and the call does not raise.
C14_LoadWhenLoadedIsNoOp ==
    [][/\ (OpStep("load_resnet_model") /\ resnet_model) => UNCHANGED service
       /\ (OpStep("load_clip_model") /\ clip_model) =>
              (UNCHANGED service /\ ~last'.raised)]_vars

\* load_clip_model() has returned on a service that had the model loaded.
C14_Witness ==
    /\ last.op = "load_clip_model"
    /\ last.loaded
    /\ clip_model

(***************************************************************************)
(* The specification of the ranking: one image, readable or not, with any  *)
(* cosines to the descriptions, any candidates in the store, the joint     *)
(* model there or not; then MaxRankOps predict_location calls.             *)
(***************************************************************************)
RankImages == 1

MaxCands == 3

MaxTopK == 3

MaxRankOps == 2

InitRank ==
    /\ cos = MatrixOf(RankImages, [p \in Pairs(RankImages) |-> 0])
    /\ readable \in SUBSET (1..RankImages)
    /\ InitFrame
    /\ window = NoWindow
    /\ clip_available \in BOOLEAN
    /\ clip_sim \in [readable -> [Descs -> SimLevels]]
    /\ csv = NoSeed
    /\ db_exists = TRUE
    /\ db_rows \in {Candidates(descs) : descs \in SeqsUpTo(Descs, MaxCands)}

NextRank ==
    /\ ops < MaxRankOps
    /\ \E path \in Images, top_k \in 0..MaxTopK, fault \in {"none", "load", "embed"} :
           Predict(path, top_k, fault)

SpecRank == InitRank /\ [][NextRank]_vars

(***************************************************************************)
(* Properties of predict_location                                          *)
(***************************************************************************)
PredictStep == OpStep("predict_location")

\* C18: a predict_location call in which the joint model raised, while being
\* loaded or while embedding, returns an empty list and raises nothing.
C18_ModelFaultsGiveEmptyList ==
    (last.op = "predict_location" /\ last.failed \in {"load", "embed"}) =>
        (~last.raised /\ last.ret = << >>)

\* C18 for the faults inside the try block only.
EmbedFaultsGiveEmptyList ==
    (last.op = "predict_location" /\ last.failed \in {"image", "embed"}) =>
        (~last.raised /\ last.ret = << >>)

\* C19: with the joint model unavailable, predict_location returns an empty
\* list without raising, and has neither tried to load a model, nor opened
\* the image, nor read the candidates; the service is as it was.
C19_UnavailableReturnsAtOnce ==
    [][(PredictStep /\ ~clip_available) =>
           /\ last'.ret = << >>
           /\ ~last'.raised
           /\ ~last'.load_attempted
           /\ ~last'.image_opened
           /\ ~last'.db_read
           /\ UNCHANGED service]_vars

\* A call that would have had an image to open and candidates to rank.
C19_Witness ==
    /\ last.op = "predict_location"
    /\ ~clip_available
    /\ last.path \in readable
    /\ last.top_k >= 1
    /\ db_rows # << >>

One == [num |-> 1, den |-> 1]

Confidence(prediction) == prediction[3]

\* C20: for top_k >= 1 the returned list is no longer than top_k and no
\* longer than the candidate set, its confidences do not increase from
\* first to last, and each lies in [0, 1].
C20_LengthOrderRange ==
    (last.op = "predict_location" /\ last.top_k >= 1) =>
        /\ Len(last.ret) <= last.top_k
        /\ Len(last.ret) <= Len(db_rows)
        /\ \A a, b \in DOMAIN last.ret :
               a < b => FracGeq(Confidence(last.ret[a]), Confidence(last.ret[b]))
        /\ \A a \in DOMAIN last.ret :
               /\ FracGeq(Confidence(last.ret[a]), Zero)
               /\ FracGeq(One, Confidence(last.ret[a]))

\* A list cut to top_k < candidate_count, of unequal confidences.
C20_Witness ==
    /\ last.op = "predict_location"
    /\ Len(last.ret) = 2
    /\ last.top_k = 2
    /\ Len(db_rows) = 3
    /\ Confidence(last.ret[1]) # Confidence(last.ret[2])

\* The call went through: the model was there, nothing failed, and there
\* were candidates to rank.
Ranked ==
    /\ last.op = "predict_location"
    /\ clip_available
    /\ last.failed = "none"
    /\ db_rows # << >>

\* C21: a call that ranked returns min(top_k, candidate_count) entries; the
\* entries of any call are those of distinct candidates, each with the
\* latitude and longitude of its candidate and that candidate's probability,
\* and no candidate left out has a higher probability than one returned.
C21_TopKOfAllCandidates ==
    last.op = "predict_location" =>
        LET cands == GetAllLocations(db_rows)
            probs == last.probabilities
        IN  /\ Ranked => Len(last.ret) = K(last.top_k, Len(cands))
            /\ \E idx \in [DOMAIN last.ret -> DOMAIN cands] :
                   /\ \A a, b \in DOMAIN idx : a # b => idx[a] # idx[b]
                   /\ \A a \in DOMAIN idx :
                          last.ret[a] = <<cands[idx[a]][1], cands[idx[a]][2], probs[idx[a]]>>
                   /\ \A a \in DOMAIN idx : \A j \in DOMAIN cands \ Range(idx) :
                          FracGeq(probs[idx[a]], probs[j])

\* Two of three candidates returned, the last candidate first.
C21_Witness ==
    /\ Ranked
    /\ Len(db_rows) = 3
    /\ Len(last.ret) = 2
    /\ last.ret[1][1] = db_rows[3].latitude
    /\ Confidence(last.ret[1]) # Confidence(last.ret[2])

\* C23: a predict_location call on a service that holds the candidate list
\* does not read the store and leaves the list as it is; the store is read
\* only by a call on a service that holds no list yet, which keeps the list
\* read.  So one service reads the store at most once.
C23_CandidatesReadOnce ==
    [][PredictStep =>
           /\ location_database.loaded =>
                  (~last'.db_read /\ location_database' = location_database)
           /\ last'.db_read =>
                  /\ ~location_database.loaded
                  /\ location_database' = [loaded |-> TRUE, rows |-> GetAllLocations(db_rows)]]_vars

\* A second call that ranked the candidates the first call had read.
C23_Witness ==
    /\ Ranked
    /\ ops = 2
    /\ ~last.db_read
    /\ last.ret # << >>
    /\ location_database.loaded

(***************************************************************************)
(* The specification of softmax and topk as functions of the similarity    *)
(* vector (lines 309-318): any vector of up to MaxVector logits, any       *)
(* top_k; the candidates are those of the positions of the vector.         *)
(***************************************************************************)
MaxVector == 3

Logits == {-1, 0, 1, 2}

\* The candidate list behind a similarity vector, one candidate per entry.
CandidatesOf(similarity) ==
    GetAllLocations(Candidates([k \in DOMAIN similarity |-> "Paris"]))

\* Lines 309-318 on a similarity vector.
RankSimilarity(similarity, top_k) ==
    /\ LET probs == Softmax(similarity)
       IN  \E idx \in TopK(probs, K(top_k, Len(similarity))) :
               last' = [op |-> "softmax_topk", similarity |-> similarity,
                        top_k |-> top_k, probabilities |-> probs,
                        ret |-> Predictions(CandidatesOf(similarity), probs, idx)]
    /\ ops' = ops + 1
    /\ UNCHANGED <<world, frame, window, service, clip_available, clip_sim, csv,
                   db_exists, db_rows>>

InitSoftmax ==
    /\ cos \in SymMatrices(1)
    /\ readable = {}
    /\ InitFrame
    /\ window = NoWindow
    /\ clip_available = TRUE
    /\ clip_sim = << >>
    /\ csv = NoSeed
    /\ db_exists = TRUE
    /\ db_rows = << >>

NextSoftmax ==
    /\ ops = 0
    /\ \E similarity \in SeqsUpTo(Logits, MaxVector) \ {<< >>}, top_k \in 1..MaxTopK :
           RankSimilarity(similarity, top_k)

SpecSoftmax == InitSoftmax /\ [][NextSoftmax]_vars

(***************************************************************************)
(* Properties of softmax and topk                                          *)
(***************************************************************************)
FracAdd(x, y) ==
    LET g == Gcd(x.den, y.den)
    IN  Frac(x.num * (y.den \div g) + y.num * (x.den \div g), (x.den \div g) * y.den)

RECURSIVE FracSum(_)
FracSum(s) == IF s = << >> THEN Zero ELSE FracAdd(s[1], FracSum(Tail(s)))

\* x is within one thousandth of milli thousandths.
Near(x, milli) == Abs(1000 * x.num - milli * x.den) <= x.den

RankedVector == last.op = "softmax_topk"

Confidences == [a \in DOMAIN last.ret |-> Confidence(last.ret[a])]

\* The probabilities of the candidates that were not returned, the
\* candidates being told apart by their coordinates.
LeftOut ==
    LET cands == CandidatesOf(last.similarity)
        out == {j \in DOMAIN cands :
                   \A a \in DOMAIN last.ret : last.ret[a][1] # cands[j][1]}
    IN  SelectSeq([j \in DOMAIN cands |-> IF j \in out THEN last.probabilities[j] ELSE Zero],
                  LAMBDA x : x # Zero)

Symmetric == \A a, b \in DOMAIN cos : cos[a][b] = cos[b][a]

Seed(g) == g.paths[1]

\* C26: given a symmetric similarity matrix, the seed (first member) of a
\* returned group is in no other returned group, neither as its seed nor as
\* one of its collected members.
C26_SeedInNoOtherGroup ==
    (Done /\ Symmetric /\ Distinct(image_paths)) =>
        \A k, l \in DOMAIN result :
            k # l => Seed(result[k]) \notin Members(result[l])

\* Two groups came back that share a collected member, under a symmetric
\* matrix: groups do overlap, but never in a seed.
C26_Witness ==
    /\ Done
    /\ Symmetric
    /\ \E k, l \in DOMAIN result :
           /\ k # l
           /\ (Members(result[k]) \cap Members(result[l])) # {}

InSomeGroup(a) == \E r \in DOMAIN result : a \in Members(result[r])

\* C27: given a symmetric similarity matrix, every retained image that has
\* another retained image at similarity >= threshold is in at least one
\* returned group.
C27_NeighboursAreGrouped ==
    (Done /\ Symmetric /\ Distinct(image_paths)) =>
        \A a \in Retained : HasNeighbour(a) => InSomeGroup(a)

\* A pass under a symmetric matrix in which an image that seeds no group has a
\* neighbour and was collected, while another retained image has no neighbour.
C27_Witness ==
    /\ Done
    /\ Symmetric
    /\ \E a \in Retained :
           /\ HasNeighbour(a)
           /\ InSomeGroup(a)
           /\ \A r \in DOMAIN result : Seed(result[r]) # a
    /\ \E b \in Retained : ~HasNeighbour(b)

(***************************************************************************)
(* Failed extractions and the cache                                        *)
(***************************************************************************)
\* This step is an extraction of the loop of compute_similarity.
LoopExtractStep == pc = "extract" /\ i' = i + 1

\* This step is an extraction of path p that returned a vector.
Succeeded(p) ==
    \/ EmbedStep /\ last'.path = p /\ last'.ret # None
    \/ LoopExtractStep /\ image_paths[i + 1] = p /\ Len(valid_paths') = Len(valid_paths) + 1

\* This step is an extraction that returned None.
Failed ==
    \/ EmbedStep /\ last'.ret = None
    \/ LoopExtractStep /\ valid_paths' = valid_paths

NoFailureCached ==
    \A p \in DOMAIN feature_cache :
        feature_cache[p] # None /\ feature_cache[p].of = p /\ p \in readable

\* C28: a failed extraction leaves the cache as it is; the cache never holds
\* a failure, and an entry comes into it only by a successful extraction of
\* its image (entries leave it only when it is cleared); an embed of an image
\* whose last embed failed, now that model and image are there, returns a
\* vector, applying the model again unless an extraction of
\* compute_similarity has cached the image in between.
C28_FailuresAreNotCached ==
    /\ [](NoFailureCached)
    /\ [][/\ Failed => feature_cache' = feature_cache
          /\ \A p \in DOMAIN feature_cache' :
                 p \notin DOMAIN feature_cache => Succeeded(p)
          /\ (EmbedStep /\ last'.retried /\ resnet_model /\ last'.path \in readable) =>
                 /\ last'.ret # None
                 /\ last'.path \notin DOMAIN feature_cache => last'.applied]_vars

\* An embed that returned a vector for an image whose previous embed failed.
C28_Witness ==
    /\ last.op = "extract_features"
    /\ last.retried
    /\ last.ret # None
    /\ last.applied
    /\ last.path \in DOMAIN feature_cache

(***************************************************************************)
(* MainWindow._find_similar_photos and its progress dialog                 *)
(*                                                                         *)
(* The GUI runs on one thread: a click on Cancel is handled only while     *)
(* QCoreApplication.processEvents() runs, that is after the dialog is      *)
(* shown and inside progress_callback.                                     *)
(***************************************************************************)
WindowImages == 3

MaxWindowCalls == 1

NoCoord == [set |-> FALSE]

\* self.images of n files without GPS data.
LoadedImages(n) ==
    [k \in 1..n |-> [filepath |-> k, gps_latitude |-> NoCoord, gps_longitude |-> NoCoord]]

\* [img.filepath for img in self.images]
ImagePaths(images) == [k \in DOMAIN images |-> images[k].filepath]

\* What the handler shows once compute_similarity has returned.
\* (AfterSimilarityUnchecked: the variant without the is_cancelled test.)
AfterSimilarityUnchecked(cancelled, similarity_groups) ==
    IF similarity_groups # << >> THEN "similarity_dialog" ELSE "no_similar_photos"

AfterSimilarity(cancelled, similarity_groups) ==
    IF cancelled THEN "similarity_search_cancelled"
    ELSE IF similarity_groups # << >> THEN "similarity_dialog" ELSE "no_similar_photos"

\* The handler starts: without images a message and the return; else a new
\* progress dialog is shown and the events are processed.
FindSimilarPhotos ==
    /\ pc = "idle"
    /\ window.at = "idle"
    /\ window' = IF window.images = << >>
                 THEN [window EXCEPT !.shown = "no_images"]
                 ELSE [window EXCEPT !.at = "similar_events", !.cancelled = FALSE,
                                     !.shown = "progress"]
    /\ ops' = ops + 1
    /\ UNCHANGED <<world, frame, service, clip_available, clip_sim, csv,
                   db_exists, db_rows, last>>

\* ProgressDialog._on_cancel, while the events are processed: after the
\* dialog is shown, in a progress_callback that found no cancellation, or in
\* an iteration of the prediction loop.
\* The button is disabled by the first click.
EventsProcessed ==
    \/ window.at = "similar_events"
    \/ window.at = "similar_call" /\ pc = "extract" /\ progress_callback
    \/ window.at = "predict_shown"
    \/ window.at = "predict_events"

OnCancel ==
    /\ EventsProcessed
    /\ ~window.cancelled
    /\ window' = [window EXCEPT !.cancelled = TRUE]
    /\ UNCHANGED <<world, frame, service, clip_available, clip_sim, csv,
                   db_exists, db_rows, last, ops>>

\* processEvents() returns; the handler goes on to compute_similarity.
EventsDone ==
    /\ window.at = "similar_events"
    /\ window' = [window EXCEPT !.at = "similar_call"]
    /\ UNCHANGED <<world, frame, service, clip_available, clip_sim, csv,
                   db_exists, db_rows, last, ops>>

\* compute_similarity(image_paths, threshold, progress_callback)
CallSimilarity(t) ==
    /\ window.at = "similar_call"
    /\ Call(ImagePaths(window.images), t, TRUE)

\* compute_similarity has returned: progress.close(), then the cancelled
\* status, the dialog of the groups or the message.
SimilarityReturned ==
    /\ pc = "done"
    /\ window.at = "similar_call"
    /\ window' = [window EXCEPT !.at = "idle",
                                !.shown = AfterSimilarity(window.cancelled, result)]
    /\ UNCHANGED <<world, frame, service, clip_available, clip_sim, csv,
                   db_exists, db_rows, last, ops>>

InitWindow ==
    /\ cos \in SymMatrices(WindowImages)
    /\ readable \in SUBSET (1..WindowImages)
    /\ InitFrame
    /\ NoRanking
    /\ \E n \in 0..WindowImages : window = [NoWindow EXCEPT !.images = LoadedImages(n)]

\* One click on "Find Similar Photos"; the frame of compute_similarity is
\* gone once the handler has looked at what it returned.
NextWindow ==
    \/ /\ ops < MaxWindowCalls
       /\ FindSimilarPhotos
    \/ OnCancel
    \/ EventsDone
    \/ \E t \in Levels : CallSimilarity(t)
    \/ Progress
    \/ Extract
    \/ ReturnEmpty
    \/ FindGroups
    \/ SortAndReturn
    \/ SimilarityReturned
    \/ /\ window.at = "idle"
       /\ Release

SpecWindow == InitWindow /\ [][NextWindow]_vars

(***************************************************************************)
(* Cancellation of the similarity search                                   *)
(***************************************************************************)
ExtractionEvents == SelectSeq(log, LAMBDA e : e.ev = "extract")

\* The extraction of every image of the input has been attempted, in order.
AllAttempted ==
    /\ Len(ExtractionEvents) = Len(image_paths)
    /\ \A k \in DOMAIN ExtractionEvents : ExtractionEvents[k].current = k - 1

\* C24: the call does not depend on the caller's cancellation: whenever the
\* flag of the progress dialog is set (before the call or in one of its
\* callbacks) or not at all, the call attempts the extraction of every image
\* of its input and returns the groups that are a function of the input and
\* of the world alone.
C24_CancellationIsNotSeen ==
    Done =>
        /\ AllAttempted
        /\ result = ComputeSimilarityOf(image_paths, threshold)

\* A call over all the images returned groups although the dialog was
\* cancelled before it returned.
C24_Witness ==
    /\ Done
    /\ window.cancelled
    /\ result # << >>
    /\ Len(image_paths) = WindowImages

\* C25: once cancellation was requested before compute_similarity returned,
\* the window shows the cancelled status, and neither the dialog of the
\* groups nor the message that there are none.
C25_CancelledResultDiscarded ==
    /\ window.shown \in {"similarity_dialog", "no_similar_photos"} => ~window.cancelled
    /\ (window.at = "idle" /\ window.cancelled) =>
           window.shown = "similarity_search_cancelled"

\* Groups were returned and the window shows the cancelled status.
C25_Witness ==
    /\ Done
    /\ result # << >>
    /\ window.cancelled
    /\ window.shown = "similarity_search_cancelled"

(***************************************************************************)
(* MainWindow._predict_locations, the geolocation dialog it opens and      *)
(* MainWindow._on_locations_applied                                        *)
(***************************************************************************)
LocateImages == 2

MaxClicks == 1

\* predict_location(image.filepath, top_k=5)
WindowTopK == 5

\* location_list[:5]
ShownPredictions == 5

Coord(v) == [set |-> TRUE, v |-> v]

\* img.gps_latitude is None or img.gps_longitude is None
WithoutGps(img) == img.gps_latitude = NoCoord \/ img.gps_longitude = NoCoord

ImagesWithoutGps(images) == SelectSeq(images, WithoutGps)

\* A dict in insertion order, as the sequence of its items <<key, value>>.
DictKeys(d) == {d[n][1] : n \in DOMAIN d}

DictGet(d, key) == d[CHOOSE n \in DOMAIN d : d[n][1] = key][2]

DictSet(d, key, value) ==
    IF key \in DictKeys(d)
    THEN [n \in DOMAIN d |-> IF d[n][1] = key THEN <<key, value>> ELSE d[n]]
    ELSE Append(d, <<key, value>>)

DictPop(d, key) == SelectSeq(d, LAMBDA item : item[1] # key)

\* The handler starts: the messages without images or without images that
\* lack GPS; else a new progress dialog is shown and the events are processed.
PredictLocations ==
    /\ pc = "idle"
    /\ window.at = "idle"
    /\ window.clicks < MaxClicks
    /\ window' =
         IF window.images = << >>
         THEN [window EXCEPT !.clicks = @ + 1, !.shown = "no_images"]
         ELSE IF ImagesWithoutGps(window.images) = << >>
         THEN [window EXCEPT !.clicks = @ + 1, !.shown = "all_images_have_gps"]
         ELSE [window EXCEPT !.clicks = @ + 1, !.at = "predict_shown",
                             !.cancelled = FALSE, !.shown = "progress",
                             !.todo = ImagePaths(ImagesWithoutGps(window.images)),
                             !.k = 0, !.late = 0, !.predictions = << >>]
    /\ UNCHANGED <<world, frame, service, clip_available, clip_sim, csv,
                   db_exists, db_rows, last, ops>>

\* processEvents() returns; the loop starts.
EnterLoop ==
    /\ window.at = "predict_shown"
    /\ window' = [window EXCEPT !.at = "predict_check"]
    /\ UNCHANGED <<world, frame, service, clip_available, clip_sim, csv,
                   db_exists, db_rows, last, ops>>

\* The head of an iteration: `if progress.is_cancelled(): break`, then the
\* progress is set and the events are processed.
LoopIteration ==
    /\ window.at = "predict_check"
    /\ window.k < Len(window.todo)
    /\ ~window.cancelled
    /\ window' = [window EXCEPT !.at = "predict_events"]
    /\ UNCHANGED <<world, frame, service, clip_available, clip_sim, csv,
                   db_exists, db_rows, last, ops>>

\* What the handler shows after the loop.
AfterLoop(cancelled, predictions) ==
    IF cancelled THEN "location_prediction_cancelled"
    ELSE IF predictions # << >> THEN "geolocation_dialog" ELSE "no_predictions"

\* for idx, (lat, lon, confidence) in enumerate(location_list[:5]): the
\* first option is selected by default.
DefaultSelection(predictions) ==
    [n \in DOMAIN predictions |->
        <<predictions[n][1], <<predictions[n][2][1][1], predictions[n][2][1][2]>>>>]

\* The loop is left, by the break or at its end: progress.close(), then the
\* cancelled status, the dialog of the predictions or the warning.
LoopExit ==
    /\ window.at = "predict_check"
    /\ window.k >= Len(window.todo) \/ window.cancelled
    /\ LET shown == AfterLoop(window.cancelled, window.predictions)
       IN  window' = IF shown = "geolocation_dialog"
                     THEN [window EXCEPT !.at = "geolocation_dialog", !.shown = shown,
                                         !.selected = DefaultSelection(window.predictions)]
                     ELSE [window EXCEPT !.at = "idle", !.shown = shown]
    /\ UNCHANGED <<world, frame, service, clip_available, clip_sim, csv,
                   db_exists, db_rows, last, ops>>

\* processEvents() returns and predict_location is called for the image of
\* this iteration; a result that is not empty is kept.  An exception leaves
\* the loop for the handler's except clause.
PredictCall(fault) ==
    /\ window.at = "predict_events"
    /\ PredictEffect(window.todo[window.k + 1], WindowTopK, fault)
    /\ window' =
         IF last'.raised
         THEN [window EXCEPT !.at = "idle", !.shown = "error",
                             !.late = IF window.cancelled THEN @ + 1 ELSE @]
         ELSE [window EXCEPT
                 !.at = "predict_check",
                 !.k = @ + 1,
                 !.late = IF window.cancelled THEN @ + 1 ELSE @,
                 !.predictions = IF last'.ret # << >>
                                 THEN DictSet(@, window.todo[window.k + 1], last'.ret)
                                 ELSE @]

\* A path as the Path object of an image and as the str the dialog emits.
AsPath(p) == [path |-> p]

Str(p) == [str |-> p]

\* The keys of the dict emitted for an image, in insertion order.
ValueKeys == <<"lat", "lon", "country", "country_code", "city">>

\* What iterating over a dict yields: its keys.
KeysOf(value) == SelectSeq(ValueKeys, LAMBDA key : key \in DOMAIN value)

\* locations_data of _apply_selected: one dict per selected image, under the
\* str of its path; the geocoding fields are None while nothing is known.
LocationsData(selected) ==
    [n \in DOMAIN selected |->
        <<Str(selected[n][1]),
          [lat |-> selected[n][2][1], lon |-> selected[n][2][2],
           country |-> "None", country_code |-> "None", city |-> "None"]>>]

\* `image.filepath == image_path`
SamePath(filepath, image_path) == AsPath(filepath) = image_path

\* The loop of _on_locations_applied over locations_dict.items():
\* `image_path, (lat, lon)` unpacks the value, which raises ValueError
\* unless iterating over it yields two things; then the first image with
\* that path gets the write and the two fields.
RECURSIVE OnLocationsApplied(_, _)
OnLocationsApplied(items, acc) ==
    IF items = << >> THEN acc
    ELSE LET image_path == items[1][1]
             unpacked == KeysOf(items[1][2])
         IN  IF Len(unpacked) # 2 THEN [acc EXCEPT !.raised = TRUE]
             ELSE LET lat == unpacked[1]
                      lon == unpacked[2]
                      found == {n \in DOMAIN acc.images :
                                   SamePath(acc.images[n].filepath, image_path)}
                  IN  IF found = {} THEN OnLocationsApplied(Tail(items), acc)
                      ELSE LET n == CHOOSE m \in found : \A o \in found : m <= o
                           IN  OnLocationsApplied(Tail(items),
                                   [acc EXCEPT
                                      !.writes = Append(@, [path |-> image_path,
                                                            lat |-> lat, lon |-> lon]),
                                      !.images[n].gps_latitude = Coord(lat),
                                      !.images[n].gps_longitude = Coord(lon)])

\* GeolocationDialog._on_location_selected: the radio button choice of the
\* row of path was checked, 0 being "Skip this image".
OnLocationSelected(path, choice) ==
    /\ window.at = "geolocation_dialog"
    /\ path \in DictKeys(window.predictions)
    /\ LET location_list == DictGet(window.predictions, path)
       IN  /\ choice <= Len(location_list)
           /\ window' = [window EXCEPT !.selected =
                  IF choice = 0 THEN DictPop(@, path)
                  ELSE DictSet(@, path, <<location_list[choice][1],
                                          location_list[choice][2]>>)]
    /\ UNCHANGED <<world, frame, service, clip_available, clip_sim, csv,
                   db_exists, db_rows, last, ops>>

\* GeolocationDialog._apply_selected with the user's reply to the
\* confirmation: on Yes locations_applied is emitted, the connected
\* _on_locations_applied runs, and the dialog is accepted.
ApplySelected(reply) ==
    /\ window.at = "geolocation_dialog"
    /\ window' =
         IF window.selected = << >>
         THEN [window EXCEPT !.shown = "no_selections"]
         ELSE IF reply
         THEN LET locations_data == LocationsData(window.selected)
                  r == OnLocationsApplied(locations_data,
                                          [images |-> window.images,
                                           writes |-> window.writes,
                                           raised |-> FALSE])
              IN  [window EXCEPT !.at = "idle",
                                 !.emitted = locations_data,
                                 !.images = r.images,
                                 !.writes = r.writes,
                                 !.raised = r.raised,
                                 !.shown = IF r.raised THEN @ ELSE "applied_gps_coordinates"]
         ELSE window
    /\ UNCHANGED <<world, frame, service, clip_available, clip_sim, csv,
                   db_exists, db_rows, last, ops>>

\* The Close button: reject().
CloseDialog ==
    /\ window.at = "geolocation_dialog"
    /\ window' = [window EXCEPT !.at = "idle"]
    /\ UNCHANGED <<world, frame, service, clip_available, clip_sim, csv,
                   db_exists, db_rows, last, ops>>

\* The GPS fields an image can have when it is loaded.
GpsFields ==
    {[gps_latitude |-> NoCoord, gps_longitude |-> NoCoord],
     [gps_latitude |-> Coord(48), gps_longitude |-> NoCoord],
     [gps_latitude |-> Coord(48), gps_longitude |-> Coord(2)]}

ImageLists ==
    {[k \in DOMAIN g |-> [filepath |-> k, gps_latitude |-> g[k].gps_latitude,
                      gps_longitude |-> g[k].gps_longitude]] :
        g \in UNION {[1..n -> GpsFields] : n \in 0..LocateImages}}

InitLocate ==
    /\ cos = MatrixOf(LocateImages, [p \in Pairs(LocateImages) |-> 0])
    /\ readable \in SUBSET (1..LocateImages)
    /\ InitFrame
    /\ clip_available \in BOOLEAN
    /\ clip_sim = [p \in readable |-> [d \in Descs |-> IF d = "Paris" THEN 1 ELSE 0]]
    /\ csv = NoSeed
    /\ db_exists = TRUE
    /\ db_rows = Candidates(<<"Paris", "Rome">>)
    /\ \E images \in ImageLists : window = [NoWindow EXCEPT !.images = images]

NextLocate ==
    \/ PredictLocations
    \/ OnCancel
    \/ EnterLoop
    \/ LoopIteration
    \/ \E fault \in {"none", "load", "embed"} : PredictCall(fault)
    \/ LoopExit
    \/ \E path \in Images, choice \in 0..ShownPredictions : OnLocationSelected(path, choice)
    \/ \E reply \in BOOLEAN : ApplySelected(reply)
    \/ CloseDialog

SpecLocate == InitLocate /\ [][NextLocate]_vars

(***************************************************************************)
(* Cancellation of the location prediction                                 *)
(***************************************************************************)
\* C29: once cancellation has been requested no predict_location call is
\* started, and the predictions gathered are discarded: the window shows the
\* cancelled status, not the geolocation dialog.
C29_NoCallAfterCancel ==
    /\ [][window.cancelled => ~PredictStep]_vars
    /\ [](window.cancelled => window.shown \notin {"geolocation_dialog", "no_predictions"})

\* What holds of the loop: at most one call starts after the request (the
\* one of the iteration whose processEvents handled the click), and the
\* predictions of a cancelled loop are not shown.
AtMostOneLateCall == window.late <= 1

CancelledPredictionsDiscarded ==
    window.cancelled =>
        /\ window.at # "geolocation_dialog"
        /\ window.shown \notin {"geolocation_dialog", "no_predictions"}
        /\ window.at = "idle" =>
               window.shown \in {"location_prediction_cancelled", "error"}

\* A predict_location call that started after the request has returned
\* predictions, which are then discarded.
LateCallReturned ==
    /\ window.late = 1
    /\ window.predictions # << >>
    /\ window.shown = "location_prediction_cancelled"

(***************************************************************************)
(* Applying the selected locations                                         *)
(***************************************************************************)
Written(image_path) == \E n \in DOMAIN window.writes : window.writes[n].path = image_path

\* C30: once locations_applied was emitted for the confirmed selections, a
\* GPS write has been issued for every selected image that is loaded, and its
\* gps_latitude and gps_longitude are the selected coordinates.
C30_SelectionsAreWritten ==
    window.emitted # << >> =>
        \A n \in DOMAIN window.selected : \A k \in DOMAIN window.images :
            window.images[k].filepath = window.selected[n][1] =>
                /\ Written(Str(window.selected[n][1])) \/ Written(AsPath(window.selected[n][1]))
                /\ window.images[k].gps_latitude = Coord(window.selected[n][2][1])
                /\ window.images[k].gps_longitude = Coord(window.selected[n][2][2])

\* What holds instead: the handler raises at the first item, no write is
\* issued and every selected image is left without GPS data.
NothingApplied ==
    window.emitted # << >> =>
        /\ window.raised
        /\ window.writes = << >>
        /\ \A n \in DOMAIN window.selected : \A k \in DOMAIN window.images :
               window.images[k].filepath = window.selected[n][1] =>
                   WithoutGps(window.images[k])

\* Two selections were confirmed and emitted.
TwoSelectionsEmitted == Len(window.emitted) = 2

====
